---- MODULE Spec2Model ----
(***************************************************************************)
(* Model of simple_log_analyzer: the prefix/suffix duration extractor and  *)
(* the statistics aggregator.                                              *)
(*                                                                         *)
(* A string is a sequence of one-character strings; Python's 0-based       *)
(* indices are kept for positions (line.find, slices), so the character at *)
(* Python index p is s[p + 1].                                             *)
(***************************************************************************)
EXTENDS Integers, Sequences, FiniteSets

\* ------------------------------------------------------------------------
\* Bounds of the checked input space.
\* ------------------------------------------------------------------------

\* Longest file content, in characters, of the single-file extraction runs.
MaxLen == 5

\* Most directory entries of a whole run.
MaxFiles == 2

\* Most lines of one file of a whole run.
MaxLines == 2

\* ------------------------------------------------------------------------
\* Characters and strings.
\* ------------------------------------------------------------------------

Alphabet == {"A", "B", "1", "2", " ", "\n"}

Whitespace == {" ", "\n"}

Digits == {"1", "2"}

DigitValue(c) == IF c = "1" THEN 1 ELSE 2

RECURSIVE StringsUpTo(_)
\* every string over Alphabet of at most n characters
StringsUpTo(n) ==
    IF n = 0 THEN {<< >>}
    ELSE LET shorter == StringsUpTo(n - 1)
         IN  shorter \cup {Append(s, c) : s \in shorter, c \in Alphabet}

RECURSIVE lstrip(_)
lstrip(s) ==
    IF s # << >> /\ Head(s) \in Whitespace THEN lstrip(Tail(s)) ELSE s

RECURSIVE rstrip(_)
rstrip(s) ==
    IF s # << >> /\ s[Len(s)] \in Whitespace
    THEN rstrip(SubSeq(s, 1, Len(s) - 1))
    ELSE s

\* str.strip(): leading and trailing whitespace removed
strip(s) == rstrip(lstrip(s))

\* line[a:b] for 0 <= a, b <= len(line)
slice(line, a, b) == SubSeq(line, a + 1, b)

MatchAt(line, sub, p) ==
    /\ p + Len(sub) <= Len(line)
    /\ \A k \in 1..Len(sub) : line[p + k] = sub[k]

\* the least element of a non-empty set of integers
Least(S) == CHOOSE p \in S : \A q \in S : p <= q

\* line.find(sub, start): lowest index >= start of an occurrence, else -1
find(line, sub, start) ==
    LET hits == {p \in start..(Len(line) - Len(sub)) : MatchAt(line, sub, p)}
    IN  IF hits = {} THEN -1 ELSE Least(hits)

RECURSIVE SplitFrom(_, _)
\* s[start:] split on newline
SplitFrom(s, start) ==
    LET pos == find(s, << "\n" >>, start)
    IN  IF pos = -1 THEN << slice(s, start, Len(s)) >>
        ELSE << slice(s, start, pos) >> \o SplitFrom(s, pos + 1)

\* str.split("\n"): always at least one piece
split(s) == SplitFrom(s, 0)

\* sub in line
contains(line, sub) == find(line, sub, 0) # -1

\* ------------------------------------------------------------------------
\* Numbers.  A Python int is a natural of any size, written as the sequence
\* of its digits in base LimbBase, least significant first and without a
\* leading zero digit (0 is the empty sequence).  A Python float is a
\* binary64: the number m * 2^t, written [m, t], m being such a natural.
\* ------------------------------------------------------------------------

LimbBase == 2^15

RECURSIVE BitLenInt(_)
\* the number of bits of a natural below LimbBase^2
BitLenInt(k) == IF k = 0 THEN 0 ELSE 1 + BitLenInt(k \div 2)

LimbBits == BitLenInt(LimbBase - 1)

RECURSIVE Pow2(_)
Pow2(k) == IF k = 0 THEN 1 ELSE 2 * Pow2(k - 1)

\* n zero digits
Zeros(n) == [j \in 1..n |-> 0]

\* the leading zero digits removed
BigNorm(a) ==
    IF a = << >> \/ a[Len(a)] # 0 THEN a
    ELSE IF \A k \in 1..Len(a) : a[k] = 0 THEN << >>
    ELSE SubSeq(a, 1, CHOOSE k \in 1..Len(a) :
                          a[k] # 0 /\ \A j \in (k + 1)..Len(a) : a[j] = 0)

RECURSIVE BigFromInt(_)
BigFromInt(k) ==
    IF k = 0 THEN << >>
    ELSE << k % LimbBase >> \o BigFromInt(k \div LimbBase)

RECURSIVE BigToInt(_)
\* the value of a natural that is known to be small
BigToInt(a) ==
    IF a = << >> THEN 0 ELSE Head(a) + LimbBase * BigToInt(Tail(a))

\* The passes over the digits of a natural halve their range of digits, so
\* that the depth of the evaluation is logarithmic in the number of digits.

RECURSIVE MulAddRange(_, _, _, _, _)
\* digits lo..hi of a * m + c and the carry out of them, c being the carry in
MulAddRange(a, m, c, lo, hi) ==
    IF lo = hi
    THEN LET v == a[lo] * m + c
         IN  [d |-> << v % LimbBase >>, c |-> v \div LimbBase]
    ELSE LET mid  == (lo + hi) \div 2
             low  == MulAddRange(a, m, c, lo, mid)
             high == MulAddRange(a, m, low.c, mid + 1, hi)
         IN  [d |-> low.d \o high.d, c |-> high.c]

\* a * m + c for a small multiplier m and a small addend c
BigMulAdd(a, m, c) ==
    IF a = << >> THEN BigFromInt(c)
    ELSE LET r == MulAddRange(a, m, c, 1, Len(a))
         IN  BigNorm(r.d \o BigFromInt(r.c))

\* digit k of a, 0 above its leading digit
Digit(a, k) == IF k <= Len(a) THEN a[k] ELSE 0

RECURSIVE AddRange(_, _, _, _, _)
\* digits lo..hi of a + b and the carry out of them, c being the carry in
AddRange(a, b, c, lo, hi) ==
    IF lo = hi
    THEN LET v == Digit(a, lo) + Digit(b, lo) + c
         IN  [d |-> << v % LimbBase >>, c |-> v \div LimbBase]
    ELSE LET mid  == (lo + hi) \div 2
             low  == AddRange(a, b, c, lo, mid)
             high == AddRange(a, b, low.c, mid + 1, hi)
         IN  [d |-> low.d \o high.d, c |-> high.c]

\* a + b
BigAdd(a, b) ==
    IF a = << >> THEN b
    ELSE IF b = << >> THEN a
    ELSE LET r == AddRange(a, b, 0, 1, IF Len(a) > Len(b) THEN Len(a) ELSE Len(b))
         IN  r.d \o BigFromInt(r.c)

RECURSIVE SubRange(_, _, _, _, _)
\* digits lo..hi of a - b and the borrow out of them, c being the borrow in
SubRange(a, b, c, lo, hi) ==
    IF lo = hi
    THEN LET v == a[lo] - Digit(b, lo) - c
         IN  [d |-> << IF v < 0 THEN v + LimbBase ELSE v >>,
              c |-> IF v < 0 THEN 1 ELSE 0]
    ELSE LET mid  == (lo + hi) \div 2
             low  == SubRange(a, b, c, lo, mid)
             high == SubRange(a, b, low.c, mid + 1, hi)
         IN  [d |-> low.d \o high.d, c |-> high.c]

\* a - b for a >= b
BigSub(a, b) ==
    IF a = << >> THEN a ELSE BigNorm(SubRange(a, b, 0, 1, Len(a)).d)

RECURSIVE CmpRange(_, _, _, _)
\* the order of digits lo..hi of two naturals of the same length
CmpRange(a, b, lo, hi) ==
    IF lo = hi
    THEN (IF a[lo] < b[lo] THEN -1 ELSE IF a[lo] > b[lo] THEN 1 ELSE 0)
    ELSE LET mid  == (lo + hi) \div 2
             high == CmpRange(a, b, mid + 1, hi)
         IN  IF high # 0 THEN high ELSE CmpRange(a, b, lo, mid)

\* -1, 0 or 1 as a < b, a = b or a > b
BigCmp(a, b) ==
    IF Len(a) < Len(b) THEN -1
    ELSE IF Len(a) > Len(b) THEN 1
    ELSE IF a = << >> THEN 0
    ELSE CmpRange(a, b, 1, Len(a))

\* a <= b
BigLE(a, b) == BigCmp(a, b) <= 0

RECURSIVE DivRange(_, _, _, _, _)
\* long division of digits hi down to lo by a small divisor d, r being the
\* remainder left by the digits above hi; the quotient's digits come most
\* significant first
DivRange(a, d, r, lo, hi) ==
    IF lo = hi
    THEN LET cur == r * LimbBase + a[lo]
         IN  [q |-> << cur \div d >>, r |-> cur % d]
    ELSE LET mid  == (lo + hi) \div 2
             high == DivRange(a, d, r, mid + 1, hi)
             low  == DivRange(a, d, high.r, lo, mid)
         IN  [q |-> high.q \o low.q, r |-> low.r]

\* divmod(a, d) for a small divisor d > 0
BigDivMod(a, d) ==
    IF a = << >> THEN [q |-> a, r |-> 0]
    ELSE LET x == DivRange(a, d, 0, 1, Len(a))
         IN  [q |-> BigNorm([k \in 1..Len(a) |-> x.q[Len(a) + 1 - k]]), r |-> x.r]

RECURSIVE MulRange(_, _, _, _)
\* a times the natural of digits lo..hi of b
MulRange(a, b, lo, hi) ==
    IF lo = hi THEN BigMulAdd(a, b[lo], 0)
    ELSE LET mid  == (lo + hi) \div 2
             high == MulRange(a, b, mid + 1, hi)
         IN  BigAdd(MulRange(a, b, lo, mid),
                    IF high = << >> THEN high ELSE Zeros(mid + 1 - lo) \o high)

\* a * b
BigMul(a, b) ==
    IF a = << >> \/ b = << >> THEN << >> ELSE MulRange(a, b, 1, Len(b))

\* int.bit_length()
BitLen(a) ==
    IF a = << >> THEN 0
    ELSE LimbBits * (Len(a) - 1) + BitLenInt(a[Len(a)])

\* a << k
ShiftLeft(a, k) ==
    IF a = << >> THEN a
    ELSE BigMulAdd(Zeros(k \div LimbBits) \o a, Pow2(k % LimbBits), 0)

\* a without its w lowest digits, divided by 2^b, and whether a bit that is
\* set was dropped
ShiftDigits(a, w, b) ==
    LET dm == BigDivMod(SubSeq(a, w + 1, Len(a)), Pow2(b))
    IN  [q      |-> dm.q,
         sticky |-> dm.r # 0 \/ \E j \in 1..w : a[j] # 0]

\* a >> k, and whether a bit that is set was shifted out
ShiftRight(a, k) ==
    ShiftDigits(a, IF k \div LimbBits < Len(a) THEN k \div LimbBits ELSE Len(a),
                k % LimbBits)

\* the float m * 2^t
Float(m, t) == [m |-> m, t |-> t]

\* x <= y for two numbers m * 2^t
FloatLE(x, y) ==
    LET lo == IF x.t < y.t THEN x.t ELSE y.t
    IN  BigLE(ShiftLeft(x.m, x.t - lo), ShiftLeft(y.m, y.t - lo))

\* x = y for two numbers m * 2^t
FloatEq(x, y) == FloatLE(x, y) /\ FloatLE(y, x)

\* sys.float_info.mant_dig: the bits of a float's significand
FloatMantDig == 53

\* sys.float_info.max_exp: a float is below 2^max_exp
FloatMaxExp == 1024

RECURSIVE NegExp(_, _, _)
\* for 0 < n < d, the least k >= 1 with n * 2^k >= d
NegExp(n, d, k) == IF 2 * n >= d THEN k ELSE NegExp(2 * n, d, k + 1)

\* for n > 0, whose quotient by d is q: the e with 2^e <= n / d < 2^(e+1)
ExponentOf(n, d, q) ==
    IF q # << >> THEN BitLen(q) - 1 ELSE 0 - NegExp(BigToInt(n), d, 1)

\* n / 2^s, as an integer part and whether a fraction is left
Scaled(n, s) ==
    IF s >= 0 THEN ShiftRight(n, s)
    ELSE [q |-> ShiftLeft(n, 0 - s), sticky |-> FALSE]

\* the integer nearest to (dm.q * 2d + dm.r + fraction) / 2d, ties to even
Nearest(dm, d, sticky) ==
    IF dm.r > d \/ (dm.r = d /\ (sticky \/ (dm.q # << >> /\ dm.q[1] % 2 = 1)))
    THEN BigMulAdd(dm.q, 1, 1)
    ELSE dm.q

\* m * 2^t with a significand that a rounding carried out of its bits put back
Normal(m, t) ==
    IF BitLen(m) > FloatMantDig THEN Float(ShiftRight(m, 1).q, t + 1)
    ELSE Float(m, t)

\* n / d rounded to a multiple of 2^t: one more bit than the significand is
\* divided out, the last bit and what is left decide the rounding
RoundAt(n, d, sh, t) == Normal(Nearest(BigDivMod(sh.q, 2 * d), d, sh.sticky), t)

\* n / d rounded at the exponent t of its last significand bit
RoundFrom(n, d, t) == RoundAt(n, d, Scaled(n, t - 1), t)

\* the number with a significand of FloatMantDig bits nearest to n / d, ties
\* to the even significand; the exponent is not limited
round_quotient(n, d) ==
    IF n = << >> THEN Float(n, 0)
    ELSE RoundFrom(n, d, ExponentOf(n, d, BigDivMod(n, d).q) - (FloatMantDig - 1))

\* the number m * 2^t is 2^FloatMaxExp or more
ExceedsFloat(f) == BitLen(f.m) + f.t > FloatMaxExp

\* n / d of an int n and a small int d > 0 raises OverflowError: the rounded
\* quotient is not below 2^FloatMaxExp
true_divide_raises(n, d) == ExceedsFloat(round_quotient(n, d))

\* n / d: the correctly rounded quotient
true_divide(n, d) == round_quotient(n, d)

\* the int v as a number m * 2^t, unrounded
exact(v) == Float(v, 0)

\* float64(v) of an int64 v
to_float(v) == round_quotient(v, 1)

\* the int that an integral float is
IntegerOf(f) ==
    IF f.t >= 0 THEN ShiftLeft(f.m, f.t) ELSE ShiftRight(f.m, 0 - f.t).q

\* x + y of two integral floats
float_add(x, y) == round_quotient(BigAdd(IntegerOf(x), IntegerOf(y)), 1)

\* x / 2.0
float_half(x) == IF x.m = << >> THEN x ELSE Float(x.m, x.t - 1)

\* ------------------------------------------------------------------------
\* extract_times_from_file: the scan of one line.
\* ------------------------------------------------------------------------

\* NextStart resuming after the whole match, which skips overlapping occurrences
NextStartAfterMatch(pos, sub) == pos + Len(sub)

\* start = pos + 1: the search resumes one character after a match
NextStart(pos, sub) == pos + 1

RECURSIVE PositionsFrom(_, _, _, _)
\* the `while True` loop collecting every position of sub in line
PositionsFrom(line, sub, start, acc) ==
    LET pos == find(line, sub, start)
    IN  IF pos = -1 THEN acc
        ELSE PositionsFrom(line, sub, NextStart(pos, sub), Append(acc, pos))

find_positions(line, sub) == PositionsFrom(line, sub, 0, << >>)

\* the maximal run of digits starting at index k (1-based) of s, s[k] a digit
DigitRunFrom(s, k) ==
    LET stops == {j \in (k + 1)..(Len(s) + 1) : j > Len(s) \/ s[j] \notin Digits}
    IN  SubSeq(s, k, Least(stops) - 1)

\* re.search(r'(\d+)', s).group(1), or the empty string when there is no match
search_digits(s) ==
    LET starts == {k \in 1..Len(s) : s[k] \in Digits}
    IN  IF starts = {} THEN << >> ELSE DigitRunFrom(s, Least(starts))

RECURSIVE Pow10(_)
Pow10(n) == IF n = 0 THEN 1 ELSE 10 * Pow10(n - 1)

RECURSIVE BigPow10(_)
\* 10^n
BigPow10(n) ==
    IF n <= 9 THEN BigFromInt(Pow10(n))
    ELSE LET h  == BigPow10(n \div 2)
             sq == BigMul(h, h)
         IN  IF n % 2 = 0 THEN sq ELSE BigMulAdd(sq, 10, 0)

RECURSIVE SmallInt(_, _, _)
\* the value of the digits run[k], ..., run[last], at most nine of them
SmallInt(run, k, last) ==
    IF k > last THEN 0
    ELSE DigitValue(run[k]) * Pow10(last - k) + SmallInt(run, k + 1, last)

RECURSIVE IntRange(_, _, _)
\* the value of the digits run[k], ..., run[last]
IntRange(run, k, last) ==
    IF last - k < 9 THEN BigFromInt(SmallInt(run, k, last))
    ELSE LET mid == (k + last) \div 2
         IN  BigAdd(BigMul(IntRange(run, k, mid), BigPow10(last - mid)),
                    IntRange(run, mid + 1, last))

\* int(run) of a non-empty digit run
int(run) == IntRange(run, 1, Len(run))

\* the most digits int() converts: sys.int_info.default_max_str_digits
MaxStrDigits == 4300

\* int(run) raises ValueError: the run is longer than the conversion limit
int_raises(run) == Len(run) > MaxStrDigits

\* the dict appended to times
TimeRecord(file, i, time_value, line) ==
    [file |-> file, line_num |-> i + 1, time |-> time_value, line |-> strip(line)]

RECURSIVE SuffixLoop(_, _, _, _, _, _, _)
\* `for suffix_pos in suffix_positions` from its j-th element on, for one
\* prefix position; st carries times, found and line_info through the loops
SuffixLoop(file, i, line, prefix_end, suffix_positions, j, st) ==
    IF j > Len(suffix_positions) THEN st
    ELSE
      LET suffix_pos   == suffix_positions[j]
          between_text == strip(slice(line, prefix_end, suffix_pos))
          match        == search_digits(between_text)
      IN  IF prefix_end <= suffix_pos /\ match # << >> /\ ~int_raises(match)
          THEN \* record appended, found = True, break
               [times |-> Append(st.times, TimeRecord(file, i, int(match), line)),
                found |-> TRUE,
                info  |-> [k \in DOMAIN st.info \cup {"time_value", "between_text"} |->
                             IF k = "matched" THEN TRUE
                             ELSE IF k = "time_value" THEN int(match)
                             ELSE IF k = "between_text" THEN between_text
                             ELSE st.info[k]]]
          ELSE IF st.found
          THEN \* no match here, or int() raised and the except clause only
               \* logged a warning: `if found: break` sits in the body of the
               \* suffix loop
               st
          ELSE SuffixLoop(file, i, line, prefix_end, suffix_positions, j + 1, st)

RECURSIVE PrefixLoop(_, _, _, _, _, _, _, _)
\* `for prefix_pos in prefix_positions` from its j-th element on
PrefixLoop(file, i, line, prefix, prefix_positions, suffix_positions, j, st) ==
    IF j > Len(prefix_positions) THEN st
    ELSE
      LET prefix_end == prefix_positions[j] + Len(prefix)
      IN  PrefixLoop(file, i, line, prefix, prefix_positions, suffix_positions, j + 1,
                     SuffixLoop(file, i, line, prefix_end, suffix_positions, 1, st))

\* line_info as first built for line i
LineInfo(i, line, prefix, suffix) ==
    [line_num        |-> i + 1,
     line            |-> line,
     contains_prefix |-> contains(line, prefix),
     contains_suffix |-> contains(line, suffix),
     matched         |-> FALSE]

\* the body of `for i, line in enumerate(lines)`: the times and the line_info
\* after line i has been scanned
scan_line(file, i, line, prefix, suffix, times) ==
    LET info0 == LineInfo(i, line, prefix, suffix)
    IN  IF contains(line, prefix) /\ contains(line, suffix)
        THEN LET prefix_positions == find_positions(line, prefix)
                 suffix_positions == find_positions(line, suffix)
                 info1 == [k \in DOMAIN info0 \cup {"prefix_positions", "suffix_positions"} |->
                             IF k = "prefix_positions" THEN prefix_positions
                             ELSE IF k = "suffix_positions" THEN suffix_positions
                             ELSE info0[k]]
                 st == PrefixLoop(file, i, line, prefix, prefix_positions,
                                  suffix_positions, 1,
                                  [times |-> times, found |-> FALSE, info |-> info1])
             IN  [times |-> st.times, info |-> st.info]
        ELSE [times |-> times, info |-> info0]

\* ------------------------------------------------------------------------
\* calculate_statistics and group_by_file.  count is a small natural; min and
\* max are ints; avg, median and the percentiles are floats.
\* ------------------------------------------------------------------------

RECURSIVE Insert(_, _)
Insert(sorted, v) ==
    IF sorted = << >> THEN << v >>
    ELSE IF BigLE(v, Head(sorted)) THEN << v >> \o sorted
    ELSE << Head(sorted) >> \o Insert(Tail(sorted), v)

RECURSIVE sorted(_)
\* the values in ascending order
sorted(values) ==
    IF values = << >> THEN << >>
    ELSE Insert(sorted(Tail(values)), Head(values))

RECURSIVE sum(_)
sum(values) ==
    IF values = << >> THEN << >> ELSE BigAdd(Head(values), sum(Tail(values)))

min(values) ==
    CHOOSE v \in {values[k] : k \in 1..Len(values)} :
        \A k \in 1..Len(values) : BigLE(v, values[k])

max(values) ==
    CHOOSE v \in {values[k] : k \in 1..Len(values)} :
        \A k \in 1..Len(values) : BigLE(values[k], v)

\* sum(values) / len(values) raises OverflowError
avg_raises(values) == true_divide_raises(sum(values), Len(values))

\* np.median of int64 values: the middle value as a float64, or the float64
\* mean of the two middle values
median(values) ==
    LET s == sorted(values)
        n == Len(values)
    IN  IF n % 2 = 1 THEN to_float(s[(n \div 2) + 1])
        ELSE float_half(float_add(to_float(s[n \div 2]), to_float(s[(n \div 2) + 1])))

\* np.percentile(values, q), default (linear) method: the value at the
\* zero-indexed rank q/100 * (n-1), interpolated between its neighbours.
\* The float returned is taken to be the one nearest to that value.
percentile(values, q) ==
    LET s    == sorted(values)
        n    == Len(values)
        lo   == (q * (n - 1)) \div 100
        frac == (q * (n - 1)) % 100
        hi   == IF lo + 1 <= n - 1 THEN lo + 1 ELSE n - 1
    IN  round_quotient(BigAdd(BigMulAdd(s[lo + 1], 100, 0),
                              BigMulAdd(BigSub(s[hi + 1], s[lo + 1]), frac, 0)),
                       100)

\* the statistics dict of a non-empty list of values whose average is a float
stats_of(values) ==
    [count  |-> Len(values),
     min    |-> min(values),
     max    |-> max(values),
     avg    |-> true_divide(sum(values), Len(values)),
     median |-> median(values),
     p90    |-> percentile(values, 90),
     p95    |-> percentile(values, 95),
     p99    |-> percentile(values, 99)]

\* the value of every field of the statistics of no records
ZeroValue == 0

\* the statistics dict returned for an empty list of records
EmptyStats ==
    [count  |-> ZeroValue,
     min    |-> BigFromInt(ZeroValue),
     max    |-> BigFromInt(ZeroValue),
     avg    |-> exact(BigFromInt(ZeroValue)),
     median |-> exact(BigFromInt(ZeroValue)),
     p90    |-> exact(BigFromInt(ZeroValue)),
     p95    |-> exact(BigFromInt(ZeroValue)),
     p99    |-> exact(BigFromInt(ZeroValue))]

\* time_values = [item["time"] for item in times]
TimeValues(times) == [k \in 1..Len(times) |-> times[k].time]

\* calculate_statistics(times) raises instead of returning
calculate_statistics_raises(times) ==
    times # << >> /\ avg_raises(TimeValues(times))

calculate_statistics(times) ==
    IF times = << >> THEN EmptyStats ELSE stats_of(TimeValues(times))

\* GroupKey reading the wrong field of the record
GroupKeyByLine(item) == item.line

\* file_name = item["file"]
GroupKey(item) == item.file

\* AppendValue overwriting the group instead of appending to it
OverwriteValue(group, item) == << item.time >>

\* file_groups[file_name].append(item["time"])
AppendValue(group, item) == Append(group, item.time)

RECURSIVE GroupLoop(_, _, _)
\* `for item in times` from the k-th record on
GroupLoop(times, k, file_groups) ==
    IF k > Len(times) THEN file_groups
    ELSE
      LET item      == times[k]
          file_name == GroupKey(item)
          created   == [f \in DOMAIN file_groups \cup {file_name} |->
                          IF f \in DOMAIN file_groups THEN file_groups[f] ELSE << >>]
      IN  GroupLoop(times, k + 1,
                    [created EXCEPT ![file_name] = AppendValue(@, item)])

\* the file_groups dict once every record is grouped
FileGroups(times) == GroupLoop(times, 1, << >>)

\* group_by_file(times) raises instead of returning
group_by_file_raises(times) ==
    LET file_groups == FileGroups(times)
    IN  \E f \in DOMAIN file_groups : avg_raises(file_groups[f])

group_by_file(times) ==
    LET file_groups == FileGroups(times)
    IN  [f \in DOMAIN file_groups |-> stats_of(file_groups[f])]

\* ------------------------------------------------------------------------
\* get_all_files: directory entries, names and extensions.
\* ------------------------------------------------------------------------

UpperCase == << "A", "B", "C", "D", "E", "F", "G", "H", "I", "J", "K", "L", "M",
                "N", "O", "P", "Q", "R", "S", "T", "U", "V", "W", "X", "Y", "Z" >>

LowerCase == << "a", "b", "c", "d", "e", "f", "g", "h", "i", "j", "k", "l", "m",
                "n", "o", "p", "q", "r", "s", "t", "u", "v", "w", "x", "y", "z" >>

\* str.lower() on the ASCII letters of the modelled names
lower(s) ==
    [k \in 1..Len(s) |->
        IF \E u \in 1..26 : UpperCase[u] = s[k]
        THEN LowerCase[CHOOSE u \in 1..26 : UpperCase[u] = s[k]]
        ELSE s[k]]

\* os.path.splitext(name)[1]: from the last dot on, unless that dot is
\* preceded by nothing but dots
splitext_ext(name) ==
    LET dots == {k \in 1..Len(name) : name[k] = "."}
    IN  IF dots = {} THEN << >>
        ELSE LET last == CHOOSE k \in dots : \A d \in dots : d <= k
             IN  IF \A k \in 1..(last - 1) : name[k] = "." THEN << >>
                 ELSE SubSeq(name, last, Len(name))

excluded_extensions == {<< ".", "e", "x", "e" >>, << ".", "b", "a", "t" >>}

RECURSIVE FilterFiles(_, _)
\* the `for f in files` loop of get_all_files from the k-th entry on
FilterFiles(files, k) ==
    IF k > Len(files) THEN << >>
    ELSE IF files[k].isfile /\ lower(splitext_ext(files[k].name)) \notin excluded_extensions
    THEN << files[k] >> \o FilterFiles(files, k + 1)
    ELSE FilterFiles(files, k + 1)

get_all_files(log_dir) == FilterFiles(log_dir, 1)

\* ------------------------------------------------------------------------
\* Inputs.
\* ------------------------------------------------------------------------

\* names a directory entry may have, in the order the entries are listed
EntryNames ==
    << << "a", ".", "l", "o", "g" >>,
       << "b", ".", "t", "x", "t" >>,
       << "c", ".", "E", "X", "E" >>,
       << "s", "u", "b" >> >>

\* the entry that is a sub-directory
SubDirName == << "s", "u", "b" >>

\* lines of the files of a whole run
RunLines ==
    { << "A", "2", "B" >>,
      << "A", "B" >>,
      << "A", "1", "A", "2", "B" >> }

RECURSIVE RunContents(_)
\* every text of at most n newline-terminated lines of RunLines
RunContents(n) ==
    IF n = 0 THEN {<< >>}
    ELSE LET shorter == RunContents(n - 1)
         IN  shorter \cup {c \o l \o << "\n" >> : c \in shorter, l \in RunLines}

Entry(name, content) ==
    [name |-> name, isfile |-> name # SubDirName, content |-> content]

\* the text of an entry that get_all_files leaves out: one matching line
SkippedContent == << "A", "1", "B", "\n" >>

\* the entries of a name: a log file holds any text of RunContents
EntriesNamed(name) ==
    IF name = SubDirName THEN {Entry(name, << >>)}
    ELSE IF lower(splitext_ext(name)) \in excluded_extensions
    THEN {Entry(name, SkippedContent)}
    ELSE {Entry(name, c) : c \in RunContents(MaxLines)}

RECURSIVE DirectoriesFrom(_, _)
\* every listing of at most n entries named EntryNames[k], EntryNames[k+1], ...
DirectoriesFrom(k, n) ==
    IF k > Len(EntryNames) \/ n = 0 THEN {<< >>}
    ELSE DirectoriesFrom(k + 1, n)
         \cup {<< e >> \o d : e \in EntriesNamed(EntryNames[k]),
                              d \in DirectoriesFrom(k + 1, n - 1)}

Directories == DirectoriesFrom(1, MaxFiles)

\* a digit run whose value is above 2^FloatMantDig and is not a float
RoundedRun == [k \in 1..(FloatMantDig \div 3) |-> "1"]

\* a digit run whose value is above 2^FloatMaxExp times any number of records
OverflowRun == [k \in 1..(FloatMaxExp \div 3) |-> "2"]

\* lines of the file of a run over large values
LargeLines ==
    { << "A", "1", "A", "2", "B" >>,
      << "A" >> \o RoundedRun \o << "B" >>,
      << "A" >> \o OverflowRun \o << "B" >> }

RECURSIVE LargeContents(_)
\* every text of at most n newline-terminated lines of LargeLines
LargeContents(n) ==
    IF n = 0 THEN {<< >>}
    ELSE LET shorter == LargeContents(n - 1)
         IN  shorter \cup {c \o l \o << "\n" >> : c \in shorter, l \in LargeLines}

\* prefix and suffix arguments of a whole run
RunPrefixes == {<< >>, << "A" >>}

RunSuffixes == {<< >>, << "B" >>}

\* (prefix, suffix) arguments of the single-file extraction runs: plain,
\* overlapping with each other and with themselves, and with whitespace at
\* their outer ends
SearchPairs ==
    { << << "A" >>, << "B" >> >>,
      << << "A", "A" >>, << "A" >> >>,
      << << " ", "A" >>, << "B", " " >> >> }

\* ------------------------------------------------------------------------
\* State.
\* ------------------------------------------------------------------------

VARIABLES
    isdir,            \* os.path.isdir(args.log_dir)
    directory,        \* the entries of log_dir, as glob lists them
    prefix,           \* args.prefix
    suffix,           \* args.suffix
    pc,               \* where the run stands
    all_files,        \* extract_times_from_directory: all_files
    processed_files,  \* extract_times_from_directory: processed_files
    lines,            \* extract_times_from_file: lines
    i,                \* extract_times_from_file: index of the next line
    times,            \* extract_times_from_file: times
    debug_info,       \* extract_times_from_file: debug_info
    all_times,        \* extract_times_from_directory: all_times
    all_debug_info,   \* extract_times_from_directory: all_debug_info
    error_log,        \* files named by logger.error in extract_times_from_file
    time_values,      \* calculate_statistics: time_values
    file_groups,      \* group_by_file: file_groups
    overall_stats,    \* main: overall_stats
    file_stats,       \* main: file_stats
    exit_status       \* what main returned, -1 while it runs

vars == << isdir, directory, prefix, suffix, pc, all_files, processed_files,
           lines, i, times, debug_info, all_times, all_debug_info, error_log,
           time_values, file_groups, overall_stats, file_stats, exit_status >>

inputs == << isdir, directory, prefix, suffix >>

file_locals == << lines, i, times, debug_info >>

stats_vars == << time_values, file_groups, overall_stats, file_stats >>

\* the state of a run that has not listed the directory yet
Fresh ==
    /\ all_files = << >>
    /\ processed_files = 0
    /\ lines = << >>
    /\ i = 0
    /\ times = << >>
    /\ debug_info = << >>
    /\ all_times = << >>
    /\ all_debug_info = << >>
    /\ error_log = << >>
    /\ time_values = << >>
    /\ file_groups = << >>
    /\ overall_stats = << >>
    /\ file_stats = << >>
    /\ exit_status = -1

\* a whole run: main is entered with its arguments parsed
Init ==
    /\ isdir \in BOOLEAN
    /\ directory \in (IF isdir THEN Directories ELSE {<< >>})
    /\ prefix \in RunPrefixes
    /\ suffix \in RunSuffixes
    /\ pc = "main"
    /\ Fresh

\* a whole run over one file of lines with large values
InitLarge ==
    /\ isdir \in BOOLEAN
    /\ directory \in (IF isdir
                      THEN {<< Entry(EntryNames[1], c) >> : c \in LargeContents(MaxLines)}
                      ELSE {<< >>})
    /\ prefix \in RunPrefixes
    /\ suffix \in RunSuffixes
    /\ pc = "main"
    /\ Fresh

\* single-file extraction: extract_times_from_directory enters its loop over
\* one file, whose content is any text of at most MaxLen characters
InitExtract ==
    /\ isdir = TRUE
    /\ directory \in {<< Entry(EntryNames[1], c) >> : c \in StringsUpTo(MaxLen)}
    /\ \E pr \in SearchPairs : prefix = pr[1] /\ suffix = pr[2]
    /\ pc = "loop"
    /\ all_files = get_all_files(directory)
    /\ processed_files = 0
    /\ lines = << >>
    /\ i = 0
    /\ times = << >>
    /\ debug_info = << >>
    /\ all_times = << >>
    /\ all_debug_info = << >>
    /\ error_log = << >>
    /\ time_values = << >>
    /\ file_groups = << >>
    /\ overall_stats = << >>
    /\ file_stats = << >>
    /\ exit_status = -1

\* ------------------------------------------------------------------------
\* main, up to the loop over the files.
\* ------------------------------------------------------------------------

\* the status main returns when its arguments are rejected or the run raises
FailureExit == 1

\* the status main returns when no record was found
NoTimesExit == 0

\* the status main returns after the report is written
SuccessExit == 0

\* `if not os.path.isdir(args.log_dir): return 1`
MainNoDir ==
    /\ pc = "main"
    /\ ~isdir
    /\ exit_status' = FailureExit
    /\ pc' = "done"
    /\ UNCHANGED << inputs, all_files, processed_files, file_locals, all_times,
                    all_debug_info, error_log, stats_vars >>

\* `if not args.prefix or not args.suffix: return 1`
MainBadArgs ==
    /\ pc = "main"
    /\ isdir
    /\ prefix = << >> \/ suffix = << >>
    /\ exit_status' = FailureExit
    /\ pc' = "done"
    /\ UNCHANGED << inputs, all_files, processed_files, file_locals, all_times,
                    all_debug_info, error_log, stats_vars >>

\* main calls extract_times_from_directory, which lists the files and
\* returns at once when there is none
ListDirectory ==
    /\ pc = "main"
    /\ isdir
    /\ prefix # << >> /\ suffix # << >>
    /\ all_files' = get_all_files(directory)
    /\ pc' = IF all_files' = << >> THEN "returned" ELSE "loop"
    /\ UNCHANGED << inputs, processed_files, file_locals, all_times,
                    all_debug_info, error_log, stats_vars, exit_status >>

\* ------------------------------------------------------------------------
\* The loop over the files, and extract_times_from_file.
\* ------------------------------------------------------------------------

CurrentFile == all_files[processed_files + 1]

\* FailedTimes handing back the records collected before the failure
FailedTimesPartial(collected) == collected

\* what extract_times_from_file returns as times from its except clause
FailedTimes(collected) == << >>

\* all_times.extend(times); all_debug_info[name] = debug_info;
\* processed_files += 1, and the loop ends after the last file
FileDone(returned_times, returned_debug) ==
    /\ all_times' = all_times \o returned_times
    /\ all_debug_info' =
         [f \in DOMAIN all_debug_info \cup {CurrentFile.name} |->
             IF f = CurrentFile.name THEN returned_debug ELSE all_debug_info[f]]
    /\ processed_files' = processed_files + 1
    /\ pc' = IF processed_files' = Len(all_files) THEN "returned" ELSE "loop"
    /\ lines' = << >>
    /\ i' = 0
    /\ times' = << >>
    /\ debug_info' = << >>

\* the file is read, stripped and split into lines
StartFile ==
    /\ pc = "loop"
    /\ lines' = split(strip(CurrentFile.content))
    /\ i' = 0
    /\ times' = << >>
    /\ debug_info' = << >>
    /\ pc' = "scan"
    /\ UNCHANGED << inputs, all_files, processed_files, all_times,
                    all_debug_info, error_log, stats_vars, exit_status >>

\* one iteration of `for i, line in enumerate(lines)`
ScanLine ==
    /\ pc = "scan"
    /\ i < Len(lines)
    /\ LET r == scan_line(CurrentFile.name, i, lines[i + 1], prefix, suffix, times)
       IN  /\ times' = r.times
           /\ debug_info' = Append(debug_info, r.info)
    /\ i' = i + 1
    /\ UNCHANGED << inputs, pc, all_files, processed_files, lines, all_times,
                    all_debug_info, error_log, stats_vars, exit_status >>

\* every line is scanned: `return times, debug_info`
ReturnTimes ==
    /\ pc = "scan"
    /\ i = Len(lines)
    /\ FileDone(times, debug_info)
    /\ UNCHANGED << inputs, all_files, error_log, stats_vars, exit_status >>

\* reading the file, or scanning it, raises: `return [], []`
FailFile ==
    /\ pc \in {"loop", "scan"}
    /\ error_log' = Append(error_log, CurrentFile.name)
    /\ FileDone(FailedTimes(times), << >>)
    /\ UNCHANGED << inputs, all_files, stats_vars, exit_status >>

\* ------------------------------------------------------------------------
\* main, after the extraction.
\* ------------------------------------------------------------------------

\* MainNoTimes treating the absence of records as a failure
MainNoTimesFails ==
    /\ pc = "returned"
    /\ all_times = << >>
    /\ exit_status' = FailureExit
    /\ pc' = "done"
    /\ UNCHANGED << inputs, all_files, processed_files, file_locals, all_times,
                    all_debug_info, error_log, stats_vars >>

\* `if not times: ... return 0`
MainNoTimes ==
    /\ pc = "returned"
    /\ all_times = << >>
    /\ exit_status' = NoTimesExit
    /\ pc' = "done"
    /\ UNCHANGED << inputs, all_files, processed_files, file_locals, all_times,
                    all_debug_info, error_log, stats_vars >>

\* overall_stats = calculate_statistics(times); file_stats = group_by_file(times).
\* Either call may raise OverflowError, which main's except clause turns into
\* the failure status with the statistics it had not assigned yet left unset.
MainStats ==
    /\ pc = "returned"
    /\ all_times # << >>
    /\ time_values' = TimeValues(all_times)
    /\ IF calculate_statistics_raises(all_times)
       THEN /\ exit_status' = FailureExit
            /\ pc' = "done"
            /\ UNCHANGED << overall_stats, file_groups, file_stats >>
       ELSE /\ overall_stats' = calculate_statistics(all_times)
            /\ file_groups' = FileGroups(all_times)
            /\ IF group_by_file_raises(all_times)
               THEN /\ exit_status' = FailureExit
                    /\ pc' = "done"
                    /\ UNCHANGED file_stats
               ELSE /\ file_stats' = group_by_file(all_times)
                    /\ pc' = "export"
                    /\ UNCHANGED exit_status
    /\ UNCHANGED << inputs, all_files, processed_files, file_locals, all_times,
                    all_debug_info, error_log >>

\* the report is written and the summary printed: `return 0`
ExportOk ==
    /\ pc = "export"
    /\ exit_status' = SuccessExit
    /\ pc' = "done"
    /\ UNCHANGED << inputs, all_files, processed_files, file_locals, all_times,
                    all_debug_info, error_log, stats_vars >>

\* writing the report raises: caught by main, `return 1`
ExportFail ==
    /\ pc = "export"
    /\ exit_status' = FailureExit
    /\ pc' = "done"
    /\ UNCHANGED << inputs, all_files, processed_files, file_locals, all_times,
                    all_debug_info, error_log, stats_vars >>

Next ==
    \/ MainNoDir
    \/ MainBadArgs
    \/ ListDirectory
    \/ StartFile
    \/ ScanLine
    \/ ReturnTimes
    \/ FailFile
    \/ MainNoTimes
    \/ MainStats
    \/ ExportOk
    \/ ExportFail

Spec == Init /\ [][Next]_vars

NextExtract ==
    \/ StartFile
    \/ ScanLine
    \/ ReturnTimes

SpecExtract == InitExtract /\ [][NextExtract]_vars

\* whole runs whose durations reach the limits of a float
SpecLarge == InitLarge /\ [][Next]_vars

\* ------------------------------------------------------------------------
\* Vocabulary of the properties.
\* ------------------------------------------------------------------------

Range(seq) == {seq[k] : k \in 1..Len(seq)}

HasDigit(s) == \E k \in 1..Len(s) : s[k] \in Digits

\* every start index (0-based) at which sub occurs in line
OccurrenceSet(line, sub) ==
    {p \in 0..(Len(line) - Len(sub)) : SubSeq(line, p + 1, p + Len(sub)) = sub}

\* seq lists exactly the members of S, smallest first, each once
IsAscendingListOf(seq, S) ==
    /\ \A k \in 1..(Len(seq) - 1) : seq[k] < seq[k + 1]
    /\ Range(seq) = S

\* the (prefix position, suffix position) pairs of a line whose prefix ends
\* at or before the suffix and whose interior holds a digit
DigitPairs(line) ==
    {pr \in OccurrenceSet(line, prefix) \X OccurrenceSet(line, suffix) :
        /\ pr[1] + Len(prefix) <= pr[2]
        /\ HasDigit(slice(line, pr[1] + Len(prefix), pr[2]))}

\* the lexicographically smallest such pair
FirstDigitPair(line) ==
    CHOOSE pr \in DigitPairs(line) :
        \A other \in DigitPairs(line) :
            \/ pr[1] < other[1]
            \/ pr[1] = other[1] /\ pr[2] <= other[2]

\* the first digit run between the two occurrences of that pair
FirstPairValue(line) ==
    LET pr == FirstDigitPair(line)
    IN  int(search_digits(strip(slice(line, pr[1] + Len(prefix), pr[2]))))

\* the records a file has in the flat record list, in order
RecordsOf(name) == SelectSeq(all_times, LAMBDA r : r.file = name)

\* every line_info of the run: of the files returned and of the file in hand
LineInfos ==
    Range(debug_info) \cup UNION {Range(all_debug_info[f]) : f \in DOMAIN all_debug_info}

\* the file's content split on newline, as it is on disk
RawLines(file) == split(file.content)

RECURSIVE ScanFrom(_, _, _, _)
\* the records of a file whose lines are all scanned, from line k (0-based) on
ScanFrom(file, file_lines, k, collected) ==
    IF k >= Len(file_lines) THEN collected
    ELSE ScanFrom(file, file_lines, k + 1,
                  scan_line(file.name, k, file_lines[k + 1], prefix, suffix, collected).times)

\* what a file yields when nothing fails
Extracted(file) == ScanFrom(file, split(strip(file.content)), 0, << >>)

RECURSIVE ExpectedTimes(_)
\* the flat record list after the first n files: nothing of a file whose
\* processing failed, everything of each other file, in enumeration order
ExpectedTimes(n) ==
    IF n = 0 THEN << >>
    ELSE ExpectedTimes(n - 1)
         \o (IF all_files[n].name \in Range(error_log) THEN << >>
             ELSE Extracted(all_files[n]))

Count(seq, v) == Cardinality({k \in 1..Len(seq) : seq[k] = v})

RECURSIVE SumOver(_, _)
\* the sum of fn[x] over the members x of the finite set S
SumOver(S, fn) ==
    IF S = {} THEN 0
    ELSE LET x == CHOOSE y \in S : TRUE
         IN  fn[x] + SumOver(S \ {x}, fn)

StatsComputed == pc \in {"export", "done"} /\ file_stats # << >>

ExtractionOver == pc = "returned"

\* ------------------------------------------------------------------------
\* Properties.
\* ------------------------------------------------------------------------

\* C1: extraction emits at most one record per line: no two records of one
\* file carry the same line number.
C1_OneRecordPerLine ==
    \A a, b \in 1..Len(all_times) :
        (a # b /\ all_times[a].file = all_times[b].file)
            => all_times[a].line_num # all_times[b].line_num

\* C2: a scanned line with no (prefix, suffix) pair that has a digit in its
\* interior yields no record, and the value of a record of any other line is
\* the first digit run of the interior of the line's smallest such pair.
C2_FirstPairWins ==
    /\ \A info \in Range(debug_info) :
          \A r \in Range(times) :
              r.line_num = info.line_num
                  => /\ DigitPairs(info.line) # {}
                     /\ r.time = FirstPairValue(info.line)
    /\ \A f \in DOMAIN all_debug_info :
          \A info \in Range(all_debug_info[f]) :
              \A r \in Range(all_times) :
                  (r.file = f /\ r.line_num = info.line_num)
                      => /\ DigitPairs(info.line) # {}
                         /\ r.time = FirstPairValue(info.line)

\* C3: once the file is scanned, every line of its content that holds an
\* occurrence of prefix, then a digit, then an occurrence of suffix starting
\* at or after the prefix's end has a record, whitespace of the prefix at the
\* very start of the content and of the suffix at its very end included.
C3_WhitespaceSignificant ==
    ExtractionOver =>
        \A file \in Range(all_files) :
            \A k \in 1..Len(RawLines(file)) :
                DigitPairs(RawLines(file)[k]) # {}
                    => \E r \in Range(all_times) :
                          /\ r.file = file.name
                          /\ r.line = strip(RawLines(file)[k])

\* C9: the line number of every record is the 1-indexed position of its
\* source line in the file content split on newline.
C9_LineNumberIsPosition ==
    \A r \in Range(all_times) :
        \A file \in Range(all_files) :
            file.name = r.file
                => /\ r.line_num \in 1..Len(RawLines(file))
                   /\ strip(RawLines(file)[r.line_num]) = r.line

\* C10: the position list enumerated for prefix, and independently for
\* suffix, is exactly the set of start indices of its occurrences in the
\* line, overlapping ones included, in strictly ascending order.
C10_AllPositionsAscending ==
    /\ \A info \in LineInfos :
          "prefix_positions" \in DOMAIN info
              => /\ IsAscendingListOf(info.prefix_positions,
                                      OccurrenceSet(info.line, prefix))
                 /\ IsAscendingListOf(info.suffix_positions,
                                      OccurrenceSet(info.line, suffix))
    /\ \A line \in Range(lines) :
          /\ IsAscendingListOf(find_positions(line, prefix), OccurrenceSet(line, prefix))
          /\ IsAscendingListOf(find_positions(line, suffix), OccurrenceSet(line, suffix))

\* C10 witness: line 'AAA' scanned for prefix 'AA' lists positions 0 and 1.
C10_Witness ==
    /\ prefix = << "A", "A" >>
    /\ \E info \in Range(debug_info) :
          /\ info.line = << "A", "A", "A" >>
          /\ "prefix_positions" \in DOMAIN info
          /\ info.prefix_positions = << 0, 1 >>

\* C4: grouping by file partitions the records: the value of every record is
\* in the group of its file, each value occurs in the groups together as often
\* as among the values of the overall statistics, and the per-file counts add
\* up to the overall count.
C4_GroupsPartitionRecords ==
    StatsComputed =>
        /\ \A r \in Range(all_times) :
              /\ r.file \in DOMAIN file_groups
              /\ r.time \in Range(file_groups[r.file])
        /\ \A v \in Range(time_values) \cup UNION {Range(file_groups[f]) : f \in DOMAIN file_groups} :
              Count(time_values, v)
                  = SumOver(DOMAIN file_groups,
                            [f \in DOMAIN file_groups |-> Count(file_groups[f], v)])
        /\ SumOver(DOMAIN file_stats, [f \in DOMAIN file_stats |-> file_stats[f].count])
              = overall_stats.count

\* C4 witness: statistics computed over two files, one of them with several
\* records.
C4_Witness ==
    /\ StatsComputed
    /\ Cardinality(DOMAIN file_groups) >= 2
    /\ \E f \in DOMAIN file_groups : Len(file_groups[f]) >= 2

\* C5: the per-file mapping has a key exactly for the file identifiers of the
\* records; a scanned file without records is absent, and every entry has
\* count >= 1.
C5_KeysAreFilesWithRecords ==
    StatsComputed =>
        /\ DOMAIN file_stats = {r.file : r \in Range(all_times)}
        /\ \A file \in Range(all_files) :
              RecordsOf(file.name) = << >> => file.name \notin DOMAIN file_stats
        /\ \A f \in DOMAIN file_stats : file_stats[f].count >= 1

\* C5 witness: statistics computed after a file was scanned to its end
\* without yielding a record.
C5_Witness ==
    /\ StatsComputed
    /\ \E file \in Range(all_files) :
          /\ file.name \notin Range(error_log)
          /\ RecordsOf(file.name) = << >>

\* C6: the overall statistics of a non-empty list of values have
\* min <= median <= max, the median being the one np.median returns.
C6_MedianBetweenMinAndMax ==
    StatsComputed =>
        /\ FloatLE(exact(overall_stats.min), overall_stats.median)
        /\ FloatLE(overall_stats.median, exact(overall_stats.max))

\* C7: a file whose processing failed has no record in the flat record list,
\* every other file has all its records there, unchanged and in enumeration
\* order, and once the loop is over every enumerated file has been processed.
C7_FailureStaysInItsFile ==
    /\ all_times = ExpectedTimes(processed_files)
    /\ \A name \in Range(error_log) : RecordsOf(name) = << >>
    /\ pc \in {"returned", "export", "done"} =>
          /\ processed_files = Len(all_files)
          /\ DOMAIN all_debug_info = {file.name : file \in Range(all_files)}

\* C7 witness: the run is over, the first file failed although it holds lines
\* that yield records, and the file after it has its records.
C7_Witness ==
    /\ pc = "done"
    /\ Len(all_files) >= 2
    /\ error_log = << all_files[1].name >>
    /\ Extracted(all_files[1]) # << >>
    /\ RecordsOf(all_files[2].name) # << >>

\* C8: a run whose arguments are accepted and whose files yield no record
\* ends with status 0; the overall statistics of its empty record list have
\* count 0 and every other field 0, and its per-file mapping is empty.
C8_NoRecordsIsSuccess ==
    (pc = "done" /\ isdir /\ prefix # << >> /\ suffix # << >> /\ all_times = << >>) =>
        /\ exit_status = 0
        /\ LET st == calculate_statistics(all_times)
           IN  /\ st.count = 0 /\ st.min = BigFromInt(0) /\ st.max = BigFromInt(0)
               /\ \A k \in {"avg", "median", "p90", "p95", "p99"} :
                     FloatEq(st[k], exact(BigFromInt(0)))
        /\ DOMAIN group_by_file(all_times) = {}

\* C8 witness: the run is over, files were scanned to their end and none
\* yielded a record.
C8_Witness ==
    /\ pc = "done"
    /\ all_files # << >>
    /\ error_log = << >>
    /\ processed_files = Len(all_files)
    /\ all_times = << >>
    /\ exit_status = 0

====
